---- MODULE Spec2Model ----
(***************************************************************************)
(* Model of gillespie_python_helpers.py: one_state_simulation and its      *)
(* helper _recursive_update_output.                                        *)
(*                                                                         *)
(* Time is modelled on the integers.  Rate constants are integers in       *)
(* tenths of 1/min (kdecay = 0.1 is 1, ksynth = 1.0 is 10): the code uses  *)
(* the rates only through the sign of the total hazard and through the     *)
(* position of p = ksynth/(ksynth + N*kdecay) relative to 0 and 1.         *)
(* The random draws (tau, the binomial outcome, the removal index) are     *)
(* nondeterministic choices over every value the draw can produce.         *)
(***************************************************************************)
EXTENDS Integers, Sequences, FiniteSets, TLC

\* arg_sim_arr is the content of the caller's array object and aliased says
\* whether the local name sim_arr still refers to that object.  born and hist
\* are history variables: born[j] is the event time at which molecule j of
\* sim_arr was created (-a0 for an initial molecule of age a0), hist[i] is
\* the event time and the birth times in force when snapshot i was recorded.
VARIABLES ksynth, kdecay, t_final, checkpoint_freq, use_default, arg_sim_arr,
          sim_arr, sim_series, next_checkpt, t, pc, err, depth, events,
          ct_checkpoints, age_checkpoints, aliased, born, hist

vars == <<ksynth, kdecay, t_final, checkpoint_freq, use_default, arg_sim_arr,
          sim_arr, sim_series, next_checkpt, t, pc, err, depth, events,
          ct_checkpoints, age_checkpoints, aliased, born, hist>>

scalars == <<ksynth, kdecay, t_final, checkpoint_freq, use_default>>

params == <<ksynth, kdecay, t_final, checkpoint_freq, use_default, arg_sim_arr>>

(* ---------------- bounds of the model ---------------- *)
MaxTau == 6
MaxEvents == 3
MaxTFinal == 3
MaxFreq == 2
MaxInitLen == 1
MaxInitAge == 1

(* ---------------- inputs ---------------- *)
KsynthSet == {-10, 0, 10}
KdecaySet == {-1, 0, 1}
TFinalSet == (-1)..MaxTFinal
FreqSet == (-1)..MaxFreq

\* arrays a caller can pass: ages 0..MaxInitAge, at most MaxInitLen molecules
InitArrs == UNION {[1..n -> 0..MaxInitAge] : n \in 0..MaxInitLen}

\* np.empty(shape=(1,)) allocates one float without initialising it
UninitVals == {-1, 0, 2}
DefaultArrs == {<<g>> : g \in UninitVals}

\* CPython's default limit on the depth of nested calls
RecursionLimit == 1000

\* a mean is the fraction num/den; 0/0 is the float nan
NaN == [num |-> 0, den |-> 0]

(* ---------------- pure helpers ---------------- *)
\* np.copy: a new array holding the same values
Copy(arr) == [i \in 1..Len(arr) |-> arr[i]]

\* sim_arr.size * kdecay
DecayProb(arr, kd) == Len(arr) * kd

\* ksynth + decay_prob, the denominator of lines 60 and 70
Hazard(ks, kd, arr) == ks + DecayProb(arr, kd)

\* mutant: the loop guard admits next_checkpt = t_final
LoopCondInclusive(next, tf) == next <= tf

\* while next_checkpt < t_final
LoopCond(next, tf) == next < tf

\* draws of np.random.exponential: any tau >= 0; a sample of small values,
\* one long value that carries past t_final and one that spans more
\* checkpoint targets than the interpreter allows nested calls
TauSet(tf, freq) ==
    {x \in (0..MaxTau) \cup {tf + freq, (RecursionLimit + 1) * freq} : x >= 0}

\* mutant: a death can be drawn although p = 1
EventsDeathAtCertainBirth(ks, hz) ==
    {e \in {0, 1} : (e = 1 => ks > 0) /\ (e = 0 => ks <= hz)}

\* outcomes of np.random.binomial(n=1, p=ks/hz) for 0 <= p <= 1:
\* 1 needs p > 0, 0 needs p < 1
Events(ks, hz) == {e \in {0, 1} : (e = 1 => ks > 0) /\ (e = 0 => ks < hz)}

\* mutant: aging subtracts the elapsed time
AgeBackwards(arr, tau) == [i \in 1..Len(arr) |-> arr[i] - tau]

\* mutant: the aging misses the first molecule
AgeSkipsFirst(arr, tau) ==
    [i \in 1..Len(arr) |-> IF i = 1 THEN arr[i] ELSE arr[i] + tau]

\* sim_arr + tau
Age(arr, tau) == [i \in 1..Len(arr) |-> arr[i] + tau]

\* np.append(sim_arr, 0)
Birth(arr) == Append(arr, 0)

\* np.delete(sim_arr, idx), idx counted from 1 here
Delete(arr, idx) == [i \in 1..(Len(arr) - 1) |-> IF i < idx THEN arr[i] ELSE arr[i + 1]]

\* the recursion of _recursive_update_output never returns when the target
\* cannot overtake t + tau: Python raises RecursionError
Diverges(tt, tau, next, freq) == freq <= 0 /\ tt + tau > next

\* the number of nested calls of _recursive_update_output for freq > 0: one
\* per target next + k*freq below t + tau, and the call that returns
CatchUpDepth(tt, tau, next, freq) ==
    IF tt + tau > next THEN ((tt + tau - next - 1) \div freq) + 2 ELSE 1

\* the nested calls exceed the interpreter's limit: Python raises
\* RecursionError (the frames already on the stack are not counted)
Overflows(tt, tau, next, freq) ==
    freq > 0 /\ CatchUpDepth(tt, tau, next, freq) > RecursionLimit

\* mutant: the target is advanced before the snapshot is indexed
RECURSIVE UpdateOutputIndexAfterAdvance(_, _, _, _, _, _)
UpdateOutputIndexAfterAdvance(series, arr, tt, tau, next, freq) ==
    IF tt + tau > next
    THEN LET r == UpdateOutputIndexAfterAdvance(
                      Append(series, [index |-> next + freq, value |-> Copy(arr)]),
                      arr, tt, tau, next + freq, freq)
         IN  [sim_series |-> r.sim_series, next_checkpt |-> r.next_checkpt,
              depth |-> r.depth + 1]
    ELSE [sim_series |-> series, next_checkpt |-> next, depth |-> 1]

\* mutant: each catch-up snapshot is aged up to its checkpoint time
RECURSIVE UpdateOutputAgedSnapshots(_, _, _, _, _, _)
UpdateOutputAgedSnapshots(series, arr, tt, tau, next, freq) ==
    IF tt + tau > next
    THEN LET r == UpdateOutputAgedSnapshots(
                      Append(series, [index |-> next,
                                      value |-> [i \in 1..Len(arr) |-> arr[i] + (next - tt)]]),
                      arr, tt, tau, next + freq, freq)
         IN  [sim_series |-> r.sim_series, next_checkpt |-> r.next_checkpt,
              depth |-> r.depth + 1]
    ELSE [sim_series |-> series, next_checkpt |-> next, depth |-> 1]

\* mutant: the snapshots are not copies, the snapshot recorded last shows
\* the live state
RECURSIVE UpdateOutputAliasedSnapshots(_, _, _, _, _, _)
UpdateOutputAliasedSnapshots(series, arr, tt, tau, next, freq) ==
    IF tt + tau > next
    THEN LET restamped == [k \in 1..Len(series) |->
                             IF k = Len(series)
                             THEN [index |-> series[k].index, value |-> arr]
                             ELSE series[k]]
             r == UpdateOutputAliasedSnapshots(
                      Append(restamped, [index |-> next, value |-> arr]),
                      arr, tt, tau, next + freq, freq)
         IN  [sim_series |-> r.sim_series, next_checkpt |-> r.next_checkpt,
              depth |-> r.depth + 1]
    ELSE [sim_series |-> series, next_checkpt |-> next, depth |-> 1]

\* mutant: a target equal to t + tau is recorded before the event
RECURSIVE UpdateOutputInclusive(_, _, _, _, _, _)
UpdateOutputInclusive(series, arr, tt, tau, next, freq) ==
    IF (IF freq > 0 THEN tt + tau >= next ELSE tt + tau > next)
    THEN LET r == UpdateOutputInclusive(
                      Append(series, [index |-> next, value |-> Copy(arr)]),
                      arr, tt, tau, next + freq, freq)
         IN  [sim_series |-> r.sim_series, next_checkpt |-> r.next_checkpt,
              depth |-> r.depth + 1]
    ELSE [sim_series |-> series, next_checkpt |-> next, depth |-> 1]

RECURSIVE RecursiveUpdateOutput(_, _, _, _, _, _)
RecursiveUpdateOutput(series, arr, tt, tau, next, freq) ==
    IF tt + tau > next
    THEN LET r == RecursiveUpdateOutput(
                      Append(series, [index |-> next, value |-> Copy(arr)]),
                      arr, tt, tau, next + freq, freq)
         IN  [sim_series |-> r.sim_series, next_checkpt |-> r.next_checkpt,
              depth |-> r.depth + 1]
    ELSE [sim_series |-> series, next_checkpt |-> next, depth |-> 1]

RECURSIVE SumSeq(_)
SumSeq(s) == IF Len(s) = 0 THEN 0 ELSE s[1] + SumSeq(Tail(s))

\* np.size
Size(arr) == Len(arr)

\* mutant: the mean of an empty array is reported as 0
MeanZeroWhenEmpty(arr) == [num |-> SumSeq(arr), den |-> IF Len(arr) = 0 THEN 1 ELSE Len(arr)]

\* np.mean: sum/size as a fraction; an empty array gives 0/0, which numpy
\* returns as nan with a warning and no exception
Mean(arr) == [num |-> SumSeq(arr), den |-> Len(arr)]

\* the exception one loop iteration raises, "none" if it raises nothing; e is
\* the binomial outcome, which counts only if the draw can produce it;
\* "EmptyRangeError" is the ValueError of np.random.randint(0, 0)
ErrorKind(ks, kd, arr, tt, tau, next, freq, e) ==
    LET hz == Hazard(ks, kd, arr) IN
    IF hz = 0 THEN "ZeroDivisionError"
    ELSE IF hz < 0 THEN "ValueError"
    ELSE IF Diverges(tt, tau, next, freq) \/ Overflows(tt, tau, next, freq)
         THEN "RecursionError"
    ELSE IF ks < 0 \/ ks > hz THEN "ValueError"
    ELSE IF e \in Events(ks, hz) /\ e = 0 /\ Len(arr) = 0 THEN "EmptyRangeError"
    ELSE "none"

\* mutant: the aging is done in place (sim_arr += tau)
ArgAfterInPlaceAging(arg, alias, tau) ==
    IF alias THEN [i \in 1..Len(arg) |-> arg[i] + tau] ELSE arg

\* the caller's array after line 66: sim_arr + tau builds a new array and
\* leaves its operand as it was
ArgAfterAging(arg, alias, tau) == arg

(* ---------------- state machine ---------------- *)
\* lines 55-57: the t = 0 snapshot, next_checkpt and t
Start(ks, kd, tf, freq, dflt, arr) ==
    /\ ksynth = ks
    /\ kdecay = kd
    /\ t_final = tf
    /\ checkpoint_freq = freq
    /\ use_default = dflt
    /\ arg_sim_arr = arr
    /\ sim_arr = arr
    /\ sim_series = <<[index |-> 0, value |-> Copy(arr)]>>
    /\ next_checkpt = freq
    /\ t = 0
    /\ pc = "loop"
    /\ err = "none"
    /\ depth = 0
    /\ events = 0
    /\ ct_checkpoints = <<>>
    /\ age_checkpoints = <<>>
    /\ aliased = TRUE
    /\ born = [i \in 1..Len(arr) |-> 0 - arr[i]]
    /\ hist = <<[t |-> 0, born |-> [i \in 1..Len(arr) |-> 0 - arr[i]]]>>

Init ==
    \E ks \in KsynthSet, kd \in KdecaySet, tf \in TFinalSet, freq \in FreqSet,
       dflt \in BOOLEAN :
        \E arr \in (IF dflt THEN DefaultArrs ELSE InitArrs) :
            Start(ks, kd, tf, freq, dflt, arr)

\* one iteration of the while loop that raises nothing (lines 58-76)
Step ==
    /\ pc = "loop"
    /\ LoopCond(next_checkpt, t_final)
    /\ events < MaxEvents
    /\ \E tau \in TauSet(t_final, checkpoint_freq) :
       \E e \in Events(ksynth, Hazard(ksynth, kdecay, sim_arr)) :
        /\ ErrorKind(ksynth, kdecay, sim_arr, t, tau, next_checkpt,
                     checkpoint_freq, e) = "none"
        /\ LET r == RecursiveUpdateOutput(sim_series, sim_arr, t, tau,
                                          next_checkpt, checkpoint_freq)
               aged == Age(sim_arr, tau)
           IN  /\ sim_series' = r.sim_series
               /\ next_checkpt' = r.next_checkpt
               /\ depth' = r.depth
               /\ hist' = hist \o [k \in 1..(Len(r.sim_series) - Len(sim_series))
                                        |-> [t |-> t, born |-> born]]
               /\ arg_sim_arr' = ArgAfterAging(arg_sim_arr, aliased, tau)
               /\ aliased' = FALSE
               /\ IF e = 1
                  THEN /\ sim_arr' = Birth(aged)
                       /\ born' = Append(born, t + tau)
                  ELSE \E idx \in 1..Len(aged) :
                       /\ sim_arr' = Delete(aged, idx)
                       /\ born' = Delete(born, idx)
               /\ t' = t + tau
    /\ events' = events + 1
    /\ UNCHANGED <<scalars, pc, err, ct_checkpoints, age_checkpoints>>

\* one iteration of the while loop that raises: the call ends with the
\* exception and returns nothing
StepError ==
    /\ pc = "loop"
    /\ LoopCond(next_checkpt, t_final)
    /\ \E tau \in TauSet(t_final, checkpoint_freq) :
       \E e \in {0, 1} :
        LET k == ErrorKind(ksynth, kdecay, sim_arr, t, tau, next_checkpt,
                           checkpoint_freq, e)
        IN  /\ k # "none"
            /\ err' = k
    /\ pc' = "error"
    /\ UNCHANGED <<params, sim_arr, sim_series, next_checkpt, t, depth, events,
                   ct_checkpoints, age_checkpoints, aliased, born, hist>>

\* loop exit and lines 77-82
Finish ==
    /\ pc = "loop"
    /\ ~LoopCond(next_checkpt, t_final)
    /\ pc' = "done"
    /\ ct_checkpoints' = [i \in 1..Len(sim_series) |-> Size(sim_series[i].value)]
    /\ age_checkpoints' = [i \in 1..Len(sim_series) |-> Mean(sim_series[i].value)]
    /\ UNCHANGED <<params, sim_arr, sim_series, next_checkpt, t, err, depth, events,
                   aliased, born, hist>>

Next == Step \/ StepError \/ Finish

Spec == Init /\ [][Next]_vars

\* the scenario of a pure decay run: ksynth = 0, kdecay = 0.1, three molecules
\* of age 0, t_final = 50, checkpoint_freq = 10
InitScenario == Start(0, 1, 50, 10, FALSE, <<0, 0, 0>>)

SpecScenario == InitScenario /\ [][Next]_vars

(* ---------------- properties ---------------- *)
ValidParams ==
    /\ ksynth > 0
    /\ kdecay > 0
    /\ checkpoint_freq > 0
    /\ t_final > 0
    /\ \A i \in 1..Len(arg_sim_arr) : arg_sim_arr[i] >= 0

InvalidParams == ksynth <= 0 \/ kdecay <= 0 \/ checkpoint_freq <= 0 \/ t_final <= 0

\* the number of multiples of freq in [0, tf), for freq > 0
NumMultiples(freq, tf) == Cardinality({k \in 0..tf : k * freq < tf})

\* the checkpoint times of the record, in recording order
Times == [i \in 1..Len(sim_series) |-> sim_series[i].index]

\* the sum of the first n elements of s
RECURSIVE SumTo(_, _)
SumTo(s, n) == IF n = 0 THEN 0 ELSE SumTo(s, n - 1) + s[n]

\* C1: for valid parameters the number of checkpoints returned equals the
\* number of multiples of checkpoint_freq in [0, t_final).
C1_CheckpointCount ==
    (ValidParams /\ pc = "done") =>
        Len(ct_checkpoints) = NumMultiples(checkpoint_freq, t_final)

\* C2: with checkpoint_freq > 0 the checkpoint times recorded so far are
\* 0, checkpoint_freq, 2*checkpoint_freq, ... in recording order.
C2_TimesArithmetic ==
    checkpoint_freq > 0 =>
        \A i \in 1..Len(sim_series) :
            sim_series[i].index = (i - 1) * checkpoint_freq

C2_Witness ==
    /\ checkpoint_freq > 1
    /\ Len(sim_series) >= 3
    /\ events >= 2

\* C3: a zero total event rate (ksynth = 0, no molecules) while
\* next_checkpt < t_final never ends the run in an error.
C3_NoArithmeticError ==
    (ksynth = 0 /\ Len(sim_arr) = 0 /\ next_checkpt < t_final
        /\ kdecay > 0 /\ checkpoint_freq > 0) => pc # "error"

\* C4: with ksynth = 0 the recorded counts never increase from one
\* checkpoint to the next, and the pure decay scenario always returns
\* exactly the checkpoints 0, 10, 20, 30, 40.
C4_PureDecay ==
    /\ ksynth = 0 =>
        \A i \in 1..(Len(sim_series) - 1) :
            Len(sim_series[i + 1].value) <= Len(sim_series[i].value)
    /\ (ksynth = 0 /\ kdecay = 1 /\ arg_sim_arr = <<0, 0, 0>>
            /\ t_final = 50 /\ checkpoint_freq = 10) =>
        /\ pc # "error"
        /\ pc = "done" => (Times = <<0, 10, 20, 30, 40>> /\ Len(ct_checkpoints) = 5)

\* C5: when checkpoint_freq >= t_final the run simulates no event, raises
\* nothing and returns exactly one checkpoint, at time 0, holding the
\* initial state.
C5_OnlyInitialSnapshot ==
    checkpoint_freq >= t_final =>
        /\ events = 0
        /\ pc # "error"
        /\ sim_series = <<[index |-> 0, value |-> arg_sim_arr]>>
        /\ pc = "done" => /\ ct_checkpoints = <<Len(arg_sim_arr)>>
                          /\ Len(age_checkpoints) = 1

C5_Witness ==
    /\ checkpoint_freq >= t_final
    /\ ksynth > 0 /\ kdecay > 0 /\ checkpoint_freq > 0 /\ t_final > 0
    /\ pc = "done"

\* C6: every checkpoint recorded during the catch-up of one event carries
\* the state as it was before that event's aging and birth/death, at
\* consecutive targets, up to the last target below t + tau.
C6_CatchUpSnapshots ==
    [][(pc = "loop" /\ events' = events + 1) =>
        LET old == Len(sim_series)
            n == Len(sim_series') - old
        IN  /\ n >= 0
            /\ \A k \in 1..old : sim_series'[k] = sim_series[k]
            /\ \A k \in 1..n :
                sim_series'[old + k] =
                    [index |-> next_checkpt + (k - 1) * checkpoint_freq,
                     value |-> sim_arr]
            /\ next_checkpt' = next_checkpt + n * checkpoint_freq
            /\ t' <= next_checkpt'
            /\ n > 0 => t' > next_checkpt' - checkpoint_freq]_vars

C6_Witness ==
    /\ depth >= 4
    /\ Len(sim_series) >= 5
    /\ events >= 2
    /\ LET n == Len(sim_series) IN
        /\ Len(sim_series[n].value) > 0
        /\ sim_series[n].value = sim_series[n - 1].value
        /\ sim_series[n].value = sim_series[n - 2].value
        /\ sim_series[n].value # sim_series[n - 3].value
        /\ sim_series[n].value # sim_arr

\* C7: a call with an invalid parameter draws no event and returns nothing.
C7_InvalidFailsFast ==
    InvalidParams => (events = 0 /\ pc # "done")

\* C8: a call without an initial state starts with no molecules: the t = 0
\* snapshot is empty and counts[0] = 0.
C8_DefaultIsEmpty ==
    use_default =>
        /\ Len(sim_series[1].value) = 0
        /\ pc = "done" => ct_checkpoints[1] = 0

C10_AgesNonNegative ==
    (\A i \in 1..Len(arg_sim_arr) : arg_sim_arr[i] >= 0) =>
        \A k \in 1..Len(sim_series) :
            \A j \in 1..Len(sim_series[k].value) : sim_series[k].value[j] >= 0

C10_Witness ==
    /\ \A i \in 1..Len(arg_sim_arr) : arg_sim_arr[i] >= 0
    /\ events >= 2
    /\ \E k \in 2..Len(sim_series) :
        \E j \in 1..Len(sim_series[k].value) :
            /\ sim_series[k].value[j] > 0
            /\ j > Len(arg_sim_arr)

\* C11: a recorded snapshot is never changed afterwards: every step keeps
\* every entry of the checkpoint record as it was and only appends.
C11_SnapshotsImmutable ==
    [][/\ Len(sim_series') >= Len(sim_series)
       /\ \A k \in 1..Len(sim_series) : sim_series'[k] = sim_series[k]]_vars

C11_Witness ==
    /\ pc = "done"
    /\ events >= 2
    /\ Len(sim_series) >= 3
    /\ sim_series[2].value # sim_arr
    /\ sim_series[2].value # sim_series[Len(sim_series)].value
    /\ sim_series[1].value # sim_series[2].value

\* C13: a run never changes the array passed as the initial state (the
\* shared default array included).
C13_InputUntouched ==
    [][arg_sim_arr' = arg_sim_arr]_vars

C13_Witness ==
    /\ pc = "done"
    /\ events >= 2
    /\ t > 0
    /\ ~aliased
    /\ use_default
    /\ sim_arr # arg_sim_arr

\* C14: catch-up emission never records a snapshot at a checkpoint time
\* >= t_final.
C14_NoSnapshotFromTFinalOn ==
    ValidParams =>
        \A i \in 2..Len(sim_series) : sim_series[i].index < t_final

\* C15: for ksynth > 0 the event drawn on an empty state is a birth: no
\* removal index is drawn from an empty range.
C15_NoDeathOnEmpty ==
    [][(ksynth > 0 /\ Len(sim_arr) = 0 /\ pc = "loop") =>
        /\ err' # "EmptyRangeError"
        /\ events' = events + 1 => sim_arr' = <<0>>]_vars

C15_Witness ==
    /\ ksynth > 0
    /\ kdecay > 0
    /\ arg_sim_arr = <<>>
    /\ ~use_default
    /\ events = 3
    /\ sim_arr = <<0>>
    /\ born = <<t>>

\* C16: an event ages every molecule present by exactly tau = t' - t >= 0,
\* then either appends one molecule of age 0 or removes exactly one
\* molecule, leaving the others as aged.
C16_EventEffect ==
    [][events' = events + 1 =>
        LET tau == t' - t
            n == Len(sim_arr)
        IN  /\ tau >= 0
            /\ \/ /\ Len(sim_arr') = n + 1
                  /\ \A i \in 1..n : sim_arr'[i] = sim_arr[i] + tau
                  /\ sim_arr'[n + 1] = 0
               \/ /\ Len(sim_arr') = n - 1
                  /\ \E idx \in 1..n :
                       /\ \A i \in 1..(idx - 1) : sim_arr'[i] = sim_arr[i] + tau
                       /\ \A i \in idx..(n - 1) : sim_arr'[i] = sim_arr[i + 1] + tau]_vars

\* a birth, then the death of the initial molecule: the survivor was born
\* and aged during the run
C16_Witness ==
    /\ events >= 2
    /\ t > 0
    /\ ~use_default
    /\ Len(arg_sim_arr) = 1
    /\ Len(sim_arr) = 1
    /\ born[1] > 0
    /\ sim_arr[1] > 0

\* C17: for valid parameters every run ends by leaving the loop, never by
\* an exception, and then every multiple of checkpoint_freq below t_final
\* has a recorded snapshot.
C17_EndsCovered ==
    ValidParams =>
        /\ pc # "error"
        /\ pc = "done" =>
            \A k \in 0..t_final :
                k * checkpoint_freq < t_final =>
                    \E i \in 1..Len(sim_series) :
                        sim_series[i].index = k * checkpoint_freq

\* C18: the nesting depth of the emission step does not depend on the
\* number of targets passed: it is the same in every event of a run.
C18_DepthConstant ==
    [][(ValidParams /\ events >= 1 /\ events' = events + 1) =>
        depth' = depth]_vars

C20_AgesAsOfLastEvent ==
    checkpoint_freq > 0 =>
        \A i \in 1..Len(sim_series) :
            LET c == sim_series[i].index
                te == hist[i].t
                snap == sim_series[i].value
            IN  /\ te <= c
                /\ Len(snap) = Len(hist[i].born)
                /\ \A j \in 1..Len(snap) :
                    /\ snap[j] = te - hist[i].born[j]
                    /\ (c - hist[i].born[j]) - snap[j] = c - te
                    /\ hist[i].born[j] >= 0 => snap[j] <= c

C20_Witness ==
    /\ checkpoint_freq > 0
    /\ \E i \in 2..Len(sim_series) :
        /\ hist[i].t < sim_series[i].index
        /\ \E j \in 1..Len(hist[i].born) :
            /\ hist[i].born[j] > 0
            /\ j > Len(arg_sim_arr)
            /\ sim_series[i].value[j] > 0

====
